---- MODULE Spec2Model ----
(***************************************************************************)
(* Model of backend/services/search_service.py (class SearchService).      *)
(*                                                                         *)
(* A call is one invocation of SearchService.search or                     *)
(* SearchService.list_collections.  Each call walks through the library    *)
(* calls of its handler one step at a time; the outcome of every call into *)
(* a collaborator (pymilvus, chromadb, EmbeddingService, the file system)  *)
(* is chosen nondeterministically.  The pymilvus connection alias          *)
(* "default" is process-wide state shared by all calls.                    *)
(*                                                                         *)
(* Scores, distances and thresholds are fixed-point numbers in quarters    *)
(* (Unit = 1.0), which keeps  1 - distance  exact in binary floating point.*)
(***************************************************************************)
EXTENDS Integers, Sequences, FiniteSets, TLC

\* ---------------------------------------------------------------- bounds
NumCalls == 2
MaxHits == 2
MaxCollections == 2

\* the literal 1 of "1 - distances[i]", in quarters
Unit == 4

Calls == 1..NumCalls
SeqCalls == {1}

\* ------------------------------------------------------- utils/config.py
VectorDBProvider == [MILVUS |-> "milvus", CHROMA |-> "chroma"]

\* provider tags a caller may pass; "ftp" is no member of VectorDBProvider
Tags == {"milvus", "chroma", "ftp"}

\* ------------------------------------------------------------ exceptions
NoError == [type |-> "none", msg |-> ""]
UnsupportedProvider == [type |-> "ValueError", msg |-> "Unsupported provider"]
CollectionEmpty == [type |-> "ValueError", msg |-> "Collection is empty"]
AttributeMissing == [type |-> "AttributeError", msg |-> "entity field"]
EmbeddingFailed == [type |-> "EmbeddingError", msg |-> "create_single_embedding"]
SaveFailed == [type |-> "OSError", msg |-> "open"]
MilvusFailed(step) == [type |-> "MilvusException", msg |-> step]
ChromaFailed(step) == [type |-> "ChromaError", msg |-> step]

StoreErrorTypes == {"MilvusException", "ChromaError"}

\* ------------------------------------------------------------ native data
\* metadata field names stored with every record at index time
NativeFields == {"document_name", "page_number", "chunk_id", "total_chunks",
                 "page_range", "embedding_provider", "embedding_model",
                 "embedding_timestamp"}

CanonicalKeys == {"source", "page", "chunk", "total_chunks", "page_range",
                  "embedding_provider", "embedding_model", "embedding_timestamp"}

FullMeta == [document_name |-> "a.pdf", page_number |-> "3", chunk_id |-> 2,
             total_chunks |-> 5, page_range |-> "3-4",
             embedding_provider |-> "openai", embedding_model |-> "ada",
             embedding_timestamp |-> "2024"]

\* a record indexed without page and chunk information
PartialMeta == [document_name |-> "b.pdf", total_chunks |-> 1,
                embedding_provider |-> "openai", embedding_model |-> "ada"]

\* no metadata at all (None in a Chroma result)
EmptyMeta == [k \in {} |-> ""]

Metas == {FullMeta, PartialMeta, EmptyMeta}
Texts == {"alpha", "beta"}
RawValues == {1, 2, 3}
Thresholds == {2, 3}

\* a native hit: raw is the COSINE score (Milvus) or the distance (Chroma)
Hits(texts, raws, metas) == [text : texts, raw : raws, meta : metas]

SeqsUpTo(S, n) == UNION {[1..k -> S] : k \in 0..n}

\* embedding fingerprints a store can hold
Fingerprints == {[embedding_provider |-> "openai", embedding_model |-> "ada"]}

\* collection-level metadata of a Chroma collection (None is EmptyMeta)
CollectionMetas == {EmptyMeta,
                    [embedding_provider |-> "openai", embedding_model |-> "ada"],
                    [embedding_provider |-> "openai"]}

CollectionPool == {[name |-> "docs", count |-> 3, healthy |-> TRUE],
                   [name |-> "notes", count |-> 7, healthy |-> TRUE],
                   [name |-> "broken", count |-> 0, healthy |-> FALSE]}

DistinctNames(s) == \A i, j \in 1..Len(s) : i # j => s[i].name # s[j].name

Listings(n) == {s \in SeqsUpTo(CollectionPool, n) : DistinctNames(s)}

\* a dispatch that falls back to the first backend for an unknown tag
SelectAdapterDefault(provider) ==
    IF provider = VectorDBProvider.CHROMA THEN "chroma" ELSE "milvus"

\* ------------------------------------------------------ pure functions
\* search(): the if / elif / else over the provider tag
SelectAdapter(provider) ==
    IF provider = VectorDBProvider.MILVUS THEN "milvus"
    ELSE IF provider = VectorDBProvider.CHROMA THEN "chroma"
    ELSE "unsupported"

\* list_collections(): the same dispatch
SelectListing(provider) ==
    IF provider = VectorDBProvider.MILVUS THEN "milvus"
    ELSE IF provider = VectorDBProvider.CHROMA THEN "chroma"
    ELSE "unsupported"

\* dict.get(key, default)
MetaGet(meta, key, default) ==
    IF key \in DOMAIN meta THEN meta[key] ELSE default

\* hit.entity.<field> raises when the entity carries no such field
EntityHasFields(meta) == NativeFields \subseteq DOMAIN meta

MilvusCanonical(hit) ==
    [text |-> hit.text,
     score |-> hit.raw,
     metadata |-> [source |-> hit.meta["document_name"],
                   page |-> hit.meta["page_number"],
                   chunk |-> hit.meta["chunk_id"],
                   total_chunks |-> hit.meta["total_chunks"],
                   page_range |-> hit.meta["page_range"],
                   embedding_provider |-> hit.meta["embedding_provider"],
                   embedding_model |-> hit.meta["embedding_model"],
                   embedding_timestamp |-> hit.meta["embedding_timestamp"]]]

ChromaCanonical(document, cosine_sim, meta) ==
    [text |-> document,
     score |-> cosine_sim,
     metadata |-> [source |-> MetaGet(meta, "document_name", ""),
                   page |-> MetaGet(meta, "page_number", ""),
                   chunk |-> MetaGet(meta, "chunk_id", 0),
                   total_chunks |-> MetaGet(meta, "total_chunks", 0),
                   page_range |-> MetaGet(meta, "page_range", ""),
                   embedding_provider |-> MetaGet(meta, "embedding_provider", ""),
                   embedding_model |-> MetaGet(meta, "embedding_model", ""),
                   embedding_timestamp |-> MetaGet(meta, "embedding_timestamp", "")]]

\* if hit.score >= threshold
KeepMilvus(score, threshold) == score >= threshold

\* cosine_sim = 1 - distances[i] if distances else 0.0
CosineSim(distances, i) ==
    IF distances # <<>> THEN Unit - distances[i] ELSE 0

\* a filter that also drops a hit whose similarity equals the threshold
DropChromaInclusive(cosine_sim, threshold) == cosine_sim <= threshold

\* if cosine_sim < threshold: continue
DropChroma(cosine_sim, threshold) == cosine_sim < threshold

\* the loop "for hit in hits" of _search_milvus; the query holds one vector,
\* so results holds one list of hits
RECURSIVE MilvusLoop(_, _, _)
MilvusLoop(hits, threshold, processed) ==
    IF hits = <<>> THEN [raised |-> NoError, processed |-> processed]
    ELSE LET hit == Head(hits) IN
         IF KeepMilvus(hit.raw, threshold)
         THEN IF EntityHasFields(hit.meta)
              THEN MilvusLoop(Tail(hits), threshold,
                              Append(processed, MilvusCanonical(hit)))
              ELSE [raised |-> AttributeMissing, processed |-> <<>>]
         ELSE MilvusLoop(Tail(hits), threshold, processed)

\* the parallel lists of a Chroma query result
ChromaResult(hits) ==
    [ids |-> [i \in 1..Len(hits) |-> i],
     distances |-> [i \in 1..Len(hits) |-> hits[i].raw],
     documents |-> [i \in 1..Len(hits) |-> hits[i].text],
     metadatas |-> [i \in 1..Len(hits) |-> hits[i].meta]]

\* the loop "for i in range(len(ids_list))" of _search_chroma
RECURSIVE ChromaLoop(_, _, _, _)
ChromaLoop(res, i, threshold, processed) ==
    IF i > Len(res.ids) THEN processed
    ELSE LET cosine_sim == CosineSim(res.distances, i) IN
         IF DropChroma(cosine_sim, threshold)
         THEN ChromaLoop(res, i + 1, threshold, processed)
         ELSE ChromaLoop(res, i + 1, threshold,
                         Append(processed,
                                ChromaCanonical(res.documents[i], cosine_sim,
                                                res.metadatas[i])))

ChromaProcess(res, threshold) ==
    IF res.ids = <<>> THEN <<>> ELSE ChromaLoop(res, 1, threshold, <<>>)

\* a resolver that falls back to "unknown" for an empty collection
ResolveMilvusFallback(sample_entity) ==
    IF sample_entity = <<>>
    THEN [raised |-> NoError, provider |-> "unknown", model |-> "unknown"]
    ELSE [raised |-> NoError,
          provider |-> sample_entity[1]["embedding_provider"],
          model |-> sample_entity[1]["embedding_model"]]

\* _search_milvus: the sample query result decides the embedding config
ResolveMilvus(sample_entity) ==
    IF sample_entity = <<>>
    THEN [raised |-> CollectionEmpty, provider |-> "", model |-> ""]
    ELSE [raised |-> NoError,
          provider |-> sample_entity[1]["embedding_provider"],
          model |-> sample_entity[1]["embedding_model"]]

\* _search_chroma: col_meta.get(..., "unknown")
ResolveChroma(col_meta) ==
    [raised |-> NoError,
     provider |-> MetaGet(col_meta, "embedding_provider", "unknown"),
     model |-> MetaGet(col_meta, "embedding_model", "unknown")]

\* an embedding call that ignores the resolved model
EmbedArgsDefaultModel(query, provider, model) ==
    [text |-> query, provider |-> provider, model |-> "default"]

\* create_single_embedding(query, provider=provider, model=model)
EmbedArgs(query, provider, model) ==
    [text |-> query, provider |-> provider, model |-> model]

\* a handler that logs the exception and swallows it
Swallow(e) == NoError

\* except Exception as e: logger.error(...); raise
Reraise(e) == e

\* finally: the disconnect runs whether or not the try block raised e
DisconnectRuns(e) == TRUE

\* a save that does not look at the result list
ShouldSaveAlways(save_results, res) == save_results

\* if save_results and results
ShouldSave(save_results, res) == save_results /\ res # <<>>

\* search(): response_data after the optional save
BuildResponse(res, saved, save_ok) ==
    IF ~saved THEN [results |-> res]
    ELSE IF save_ok THEN [results |-> res, saved_filepath |-> "search.json"]
    ELSE [results |-> res, save_error |-> SaveFailed.msg]

ListEntry(col) == [id |-> col.name, name |-> col.name, count |-> col.count]

\* list_collections, Milvus: the outcomes of Collection(name); it needs the
\* alias, and a broken collection may fail here or only when it is counted
OpenOutcomes(col, connected) ==
    IF ~connected THEN {FALSE}
    ELSE IF col.healthy THEN {TRUE}
    ELSE {TRUE, FALSE}

\* list_collections, Milvus: col.num_entities succeeds
CountSucceeds(col, connected) == connected /\ col.healthy

\* ------------------------------------------------------------------ state
VARIABLES
    pc,               \* the statement each call is at
    req,              \* the arguments of each call
    milvusConnected,  \* pymilvus connections: the alias "default" is connected
    conn,             \* the connection life cycle of each call
    sample,           \* what the embedding-config lookup of each call read
    fingerprint,      \* the (provider, model) each call resolved
    embedLog,         \* the arguments of each create_single_embedding call
    native,           \* the native hits the store returned to each call
    results,          \* the list _search_milvus / _search_chroma returned
    pending,          \* the exception raised inside the try block
    err,              \* the exception that reached the caller
    response,         \* the value search() returned
    saveOutcome,      \* how save_search_results() ended, when it was called
    steps,            \* the collaborator operations each call invoked, in order
    visible,          \* the collections the store enumerated for each call
    listing           \* the collections list_collections() has gathered

vars == <<pc, req, milvusConnected, conn, sample, fingerprint, embedLog, native,
          results, pending, err, response, saveOutcome, steps, visible, listing>>

NoReq == [op |-> "none", provider |-> "", save_results |-> FALSE,
          threshold |-> 0, query |-> "", collection_id |-> "", top_k |-> 0]
NoFingerprint == [raised |-> NoError, provider |-> "", model |-> ""]
NoResponse == [absent |-> TRUE]
NoSample == [read |-> FALSE, records |-> <<>>]

SearchRequests(saves, thresholds) ==
    [op : {"search"}, provider : Tags, save_results : saves,
     threshold : thresholds, query : {"what is rag"},
     collection_id : {"docs"}, top_k : {MaxHits}]

ListRequests ==
    [op : {"list"}, provider : Tags, save_results : {FALSE},
     threshold : {0}, query : {""}, collection_id : {""}, top_k : {0}]

\* the inputs of sequential runs
SeqData ==
    [concurrent |-> FALSE,
     requests |-> SearchRequests(BOOLEAN, Thresholds) \cup ListRequests,
     hitLists |-> SeqsUpTo(Hits(Texts, RawValues, Metas), MaxHits),
     colMetas |-> CollectionMetas,
     listings |-> Listings(MaxCollections)]

\* the inputs of concurrent runs: few values, every interleaving
ConcData ==
    [concurrent |-> TRUE,
     requests |-> SearchRequests({TRUE}, {2}) \cup ListRequests,
     hitLists |-> {<<>>, <<[text |-> "alpha", raw |-> 2, meta |-> FullMeta]>>,
                   <<[text |-> "beta", raw |-> 2, meta |-> PartialMeta]>>},
     colMetas |-> {EmptyMeta},
     listings |-> {<<[name |-> "docs", count |-> 3, healthy |-> TRUE],
                     [name |-> "notes", count |-> 7, healthy |-> TRUE]>>}]

Init ==
    /\ pc = [c \in Calls |-> "idle"]
    /\ req = [c \in Calls |-> NoReq]
    /\ milvusConnected = FALSE
    /\ conn = [c \in Calls |-> "Disconnected"]
    /\ sample = [c \in Calls |-> NoSample]
    /\ fingerprint = [c \in Calls |-> NoFingerprint]
    /\ embedLog = [c \in Calls |-> <<>>]
    /\ native = [c \in Calls |-> <<>>]
    /\ results = [c \in Calls |-> <<>>]
    /\ pending = [c \in Calls |-> NoError]
    /\ err = [c \in Calls |-> NoError]
    /\ response = [c \in Calls |-> NoResponse]
    /\ saveOutcome = [c \in Calls |-> "none"]
    /\ steps = [c \in Calls |-> <<>>]
    /\ visible = [c \in Calls |-> <<>>]
    /\ listing = [c \in Calls |-> <<>>]

\* the outcomes of an operation on the Milvus store: it needs the alias
Outcomes(connected) == IF connected THEN {TRUE, FALSE} ELSE {FALSE}

Goto(c, label) == pc' = [pc EXCEPT ![c] = label]
Log(c, step) == steps' = [steps EXCEPT ![c] = Append(@, step)]
Raise(c, e) == pending' = [pending EXCEPT ![c] = e]

\* ---------------------------------------------------------------- search()
\* a caller invokes search() or list_collections()
Start(c, D) ==
    /\ pc[c] = "idle"
    /\ ~D.concurrent => \A d \in Calls : pc[d] = "idle"
    /\ \E r \in D.requests : req' = [req EXCEPT ![c] = r]
    /\ Goto(c, "dispatch")
    /\ UNCHANGED <<milvusConnected, conn, sample, fingerprint, embedLog, native,
                   results, pending, err, response, steps, visible, listing,
                   saveOutcome>>

\* search(): select the backend by the provider tag
Dispatch(c) ==
    /\ pc[c] = "dispatch"
    /\ req[c].op = "search"
    /\ LET adapter == SelectAdapter(req[c].provider) IN
       IF adapter = "milvus" THEN Goto(c, "m_connect") /\ UNCHANGED err
       ELSE IF adapter = "chroma" THEN Goto(c, "c_client") /\ UNCHANGED err
       ELSE /\ err' = [err EXCEPT ![c] = UnsupportedProvider]
            /\ Goto(c, "raised")
    /\ UNCHANGED <<req, milvusConnected, conn, sample, fingerprint, embedLog,
                   native, results, pending, response, steps, visible, listing,
                   saveOutcome>>

\* ---------------------------------------------------------- _search_milvus
\* connections.connect(alias="default", uri=...): connecting an alias that is
\* already connected to the same uri returns at once
MConnect(c) ==
    /\ pc[c] = "m_connect"
    /\ Log(c, "connect")
    /\ \E ok \in (IF milvusConnected THEN {TRUE} ELSE {TRUE, FALSE}) :
         IF ok
         THEN /\ milvusConnected' = TRUE
              /\ conn' = [conn EXCEPT ![c] = "Connected"]
              /\ Goto(c, "m_collection")
              /\ UNCHANGED pending
         ELSE /\ Raise(c, MilvusFailed("connect"))
              /\ Goto(c, "m_finally")
              /\ UNCHANGED <<milvusConnected, conn>>
    /\ UNCHANGED <<req, sample, fingerprint, embedLog, native, results, err,
                   response, visible, listing, saveOutcome>>

\* collection = Collection(collection_id)
MCollection(c) ==
    /\ pc[c] = "m_collection"
    /\ Log(c, "open")
    /\ \E ok \in Outcomes(milvusConnected) :
         IF ok
         THEN Goto(c, "m_load") /\ UNCHANGED pending
         ELSE Goto(c, "m_finally") /\ Raise(c, MilvusFailed("open"))
    /\ UNCHANGED <<req, milvusConnected, conn, sample, fingerprint, embedLog,
                   native, results, err, response, visible, listing,
                   saveOutcome>>

\* collection.load()
MLoad(c) ==
    /\ pc[c] = "m_load"
    /\ Log(c, "load")
    /\ \E ok \in Outcomes(milvusConnected) :
         IF ok
         THEN /\ conn' = [conn EXCEPT ![c] = "Loaded"]
              /\ Goto(c, "m_sample")
              /\ UNCHANGED pending
         ELSE /\ Raise(c, MilvusFailed("load"))
              /\ Goto(c, "m_finally")
              /\ UNCHANGED conn
    /\ UNCHANGED <<req, milvusConnected, sample, fingerprint, embedLog, native,
                   results, err, response, visible, listing, saveOutcome>>

\* collection.query(expr="id >= 0", ..., limit=1) and the embedding config
MSample(c) ==
    /\ pc[c] = "m_sample"
    /\ Log(c, "resolve")
    /\ \E ok \in Outcomes(milvusConnected) :
         IF ok
         THEN \E s \in {<<>>} \cup {<<f>> : f \in Fingerprints} :
                LET r == ResolveMilvus(s) IN
                /\ sample' = [sample EXCEPT ![c] = [read |-> TRUE, records |-> s]]
                /\ conn' = [conn EXCEPT ![c] = "Queried"]
                /\ fingerprint' = [fingerprint EXCEPT ![c] = r]
                /\ IF r.raised = NoError
                   THEN Goto(c, "m_embed") /\ UNCHANGED pending
                   ELSE Goto(c, "m_finally") /\ Raise(c, r.raised)
         ELSE /\ Raise(c, MilvusFailed("resolve"))
              /\ Goto(c, "m_finally")
              /\ UNCHANGED <<sample, conn, fingerprint>>
    /\ UNCHANGED <<req, milvusConnected, embedLog, native, results, err,
                   response, visible, listing, saveOutcome>>

\* self.embedding_service.create_single_embedding(query, provider, model)
MEmbed(c) ==
    /\ pc[c] = "m_embed"
    /\ Log(c, "embed")
    /\ embedLog' = [embedLog EXCEPT ![c] =
                      Append(@, EmbedArgs(req[c].query, fingerprint[c].provider,
                                          fingerprint[c].model))]
    /\ \E ok \in BOOLEAN :
         IF ok THEN Goto(c, "m_search") /\ UNCHANGED pending
         ELSE Goto(c, "m_finally") /\ Raise(c, EmbeddingFailed)
    /\ UNCHANGED <<req, milvusConnected, conn, sample, fingerprint, native,
                   results, err, response, visible, listing, saveOutcome>>

\* collection.search(data=[query_embedding], ..., limit=top_k, ...)
MSearch(c, D) ==
    /\ pc[c] = "m_search"
    /\ Log(c, "vector_search")
    /\ \E ok \in Outcomes(milvusConnected) :
         IF ok
         THEN /\ \E hits \in D.hitLists :
                   /\ Len(hits) <= req[c].top_k
                   /\ native' = [native EXCEPT ![c] = hits]
              /\ Goto(c, "m_map")
              /\ UNCHANGED pending
         ELSE /\ Raise(c, MilvusFailed("vector_search"))
              /\ Goto(c, "m_finally")
              /\ UNCHANGED native
    /\ UNCHANGED <<req, milvusConnected, conn, sample, fingerprint, embedLog,
                   results, err, response, visible, listing, saveOutcome>>

\* the loops over results that fill processed; return processed
MMap(c) ==
    /\ pc[c] = "m_map"
    /\ Log(c, "normalize")
    /\ LET r == MilvusLoop(native[c], req[c].threshold, <<>>) IN
       /\ results' = [results EXCEPT ![c] = r.processed]
       /\ Raise(c, r.raised)
    /\ Goto(c, "m_finally")
    /\ UNCHANGED <<req, milvusConnected, conn, sample, fingerprint, embedLog,
                   native, err, response, visible, listing, saveOutcome>>

\* except: log and raise; finally: connections.disconnect("default")
MFinally(c) ==
    /\ pc[c] = "m_finally"
    /\ IF DisconnectRuns(pending[c])
       THEN /\ Log(c, "disconnect")
            /\ milvusConnected' = FALSE
            /\ conn' = [conn EXCEPT ![c] = "Disconnected"]
       ELSE UNCHANGED <<steps, milvusConnected, conn>>
    /\ LET e == IF pending[c] = NoError THEN NoError ELSE Reraise(pending[c]) IN
       /\ err' = [err EXCEPT ![c] = e]
       /\ IF e = NoError THEN Goto(c, "persist") ELSE Goto(c, "raised")
    /\ UNCHANGED <<req, sample, fingerprint, embedLog, native, results, pending,
                   response, visible, listing, saveOutcome>>

\* ---------------------------------------------------------- _search_chroma
\* chromadb.PersistentClient(path=...)
CClient(c) ==
    /\ pc[c] = "c_client"
    /\ Log(c, "connect")
    /\ \E ok \in BOOLEAN :
         IF ok
         THEN /\ conn' = [conn EXCEPT ![c] = "Connected"]
              /\ Goto(c, "c_get")
              /\ UNCHANGED pending
         ELSE /\ Raise(c, ChromaFailed("connect"))
              /\ Goto(c, "c_except")
              /\ UNCHANGED conn
    /\ UNCHANGED <<req, milvusConnected, sample, fingerprint, embedLog, native,
                   results, err, response, visible, listing, saveOutcome>>

\* client.get_collection(collection_id)
CGet(c) ==
    /\ pc[c] = "c_get"
    /\ Log(c, "open")
    /\ \E ok \in BOOLEAN :
         IF ok
         THEN /\ conn' = [conn EXCEPT ![c] = "Opened"]
              /\ Goto(c, "c_resolve")
              /\ UNCHANGED pending
         ELSE /\ Raise(c, ChromaFailed("open"))
              /\ Goto(c, "c_except")
              /\ UNCHANGED conn
    /\ UNCHANGED <<req, milvusConnected, sample, fingerprint, embedLog, native,
                   results, err, response, visible, listing, saveOutcome>>

\* col_meta = collection.metadata or {}; provider, model from col_meta
CResolve(c, D) ==
    /\ pc[c] = "c_resolve"
    /\ Log(c, "resolve")
    /\ \E m \in D.colMetas :
         /\ sample' = [sample EXCEPT ![c] = [read |-> TRUE, records |-> <<m>>]]
         /\ fingerprint' = [fingerprint EXCEPT ![c] = ResolveChroma(m)]
    /\ Goto(c, "c_embed")
    /\ UNCHANGED <<req, milvusConnected, conn, embedLog, native, results,
                   pending, err, response, visible, listing, saveOutcome>>

\* self.embedding_service.create_single_embedding(query, provider, model)
CEmbed(c) ==
    /\ pc[c] = "c_embed"
    /\ Log(c, "embed")
    /\ embedLog' = [embedLog EXCEPT ![c] =
                      Append(@, EmbedArgs(req[c].query, fingerprint[c].provider,
                                          fingerprint[c].model))]
    /\ \E ok \in BOOLEAN :
         IF ok THEN Goto(c, "c_query") /\ UNCHANGED pending
         ELSE Goto(c, "c_except") /\ Raise(c, EmbeddingFailed)
    /\ UNCHANGED <<req, milvusConnected, conn, sample, fingerprint, native,
                   results, err, response, visible, listing, saveOutcome>>

\* collection.query(query_embeddings=[...], n_results=top_k, where=...)
CQuery(c, D) ==
    /\ pc[c] = "c_query"
    /\ Log(c, "vector_search")
    /\ \E ok \in BOOLEAN :
         IF ok
         THEN /\ \E hits \in D.hitLists :
                   /\ Len(hits) <= req[c].top_k
                   /\ native' = [native EXCEPT ![c] = hits]
              /\ conn' = [conn EXCEPT ![c] = "Queried"]
              /\ Goto(c, "c_map")
              /\ UNCHANGED pending
         ELSE /\ Raise(c, ChromaFailed("vector_search"))
              /\ Goto(c, "c_except")
              /\ UNCHANGED <<native, conn>>
    /\ UNCHANGED <<req, milvusConnected, sample, fingerprint, embedLog, results,
                   err, response, visible, listing, saveOutcome>>

\* the loop over ids_list that fills processed; return processed
CMap(c) ==
    /\ pc[c] = "c_map"
    /\ Log(c, "normalize")
    /\ results' = [results EXCEPT ![c] =
                     ChromaProcess(ChromaResult(native[c]), req[c].threshold)]
    /\ Goto(c, "persist")
    /\ UNCHANGED <<req, milvusConnected, conn, sample, fingerprint, embedLog,
                   native, pending, err, response, visible, listing,
                   saveOutcome>>

\* except Exception as e: logger.error(...); raise
CExcept(c) ==
    /\ pc[c] = "c_except"
    /\ LET e == Reraise(pending[c]) IN
       /\ err' = [err EXCEPT ![c] = e]
       /\ IF e = NoError THEN Goto(c, "persist") ELSE Goto(c, "raised")
    /\ UNCHANGED <<req, milvusConnected, conn, sample, fingerprint, embedLog,
                   native, results, pending, response, steps, visible, listing,
                   saveOutcome>>

\* ------------------------------------------ search(): the optional save
\* response_data; save_search_results() inside try / except
Persist(c) ==
    /\ pc[c] = "persist"
    /\ IF ShouldSave(req[c].save_results, results[c])
       THEN /\ Log(c, "save")
            /\ \E ok \in BOOLEAN :
                 /\ saveOutcome' = [saveOutcome EXCEPT ![c] =
                                      IF ok THEN "saved" ELSE "failed"]
                 /\ response' = [response EXCEPT ![c] =
                                   BuildResponse(results[c], TRUE, ok)]
       ELSE /\ response' = [response EXCEPT ![c] =
                              BuildResponse(results[c], FALSE, TRUE)]
            /\ UNCHANGED <<steps, saveOutcome>>
    /\ Goto(c, "returned")
    /\ UNCHANGED <<req, milvusConnected, conn, sample, fingerprint, embedLog,
                   native, results, pending, err, visible, listing>>

\* -------------------------------------------------------- list_collections
LDispatch(c) ==
    /\ pc[c] = "dispatch"
    /\ req[c].op = "list"
    /\ LET adapter == SelectListing(req[c].provider) IN
       IF adapter = "milvus" THEN Goto(c, "lm_connect") /\ UNCHANGED err
       ELSE IF adapter = "chroma" THEN Goto(c, "lc_client") /\ UNCHANGED err
       ELSE /\ err' = [err EXCEPT ![c] = UnsupportedProvider]
            /\ Goto(c, "raised")
    /\ UNCHANGED <<req, milvusConnected, conn, sample, fingerprint, embedLog,
                   native, results, pending, response, steps, visible, listing,
                   saveOutcome>>

\* connections.connect(alias="default", uri=...)
LMConnect(c) ==
    /\ pc[c] = "lm_connect"
    /\ Log(c, "connect")
    /\ \E ok \in (IF milvusConnected THEN {TRUE} ELSE {TRUE, FALSE}) :
         IF ok
         THEN /\ milvusConnected' = TRUE
              /\ conn' = [conn EXCEPT ![c] = "Connected"]
              /\ Goto(c, "lm_list")
              /\ UNCHANGED pending
         ELSE /\ Raise(c, MilvusFailed("connect"))
              /\ Goto(c, "lm_finally")
              /\ UNCHANGED <<milvusConnected, conn>>
    /\ UNCHANGED <<req, sample, fingerprint, embedLog, native, results, err,
                   response, visible, listing, saveOutcome>>

\* utility.list_collections()
LMList(c, D) ==
    /\ pc[c] = "lm_list"
    /\ Log(c, "list")
    /\ \E ok \in Outcomes(milvusConnected) :
         IF ok
         THEN /\ \E cols \in D.listings : visible' = [visible EXCEPT ![c] = cols]
              /\ Goto(c, "lm_open")
              /\ UNCHANGED pending
         ELSE /\ Raise(c, MilvusFailed("list"))
              /\ Goto(c, "lm_finally")
              /\ UNCHANGED visible
    /\ UNCHANGED <<req, milvusConnected, conn, sample, fingerprint, embedLog,
                   native, results, err, response, listing, saveOutcome>>

\* the rounds of the loop begun so far: each begins with Collection(name)
Visited(c) == Len(SelectSeq(steps[c], LAMBDA x : x = "open"))

\* for name in ...: col = Collection(name), inside try / except; a failure
\* is logged and the loop goes on; after the last name, return collections
LMOpen(c) ==
    /\ pc[c] = "lm_open"
    /\ IF Visited(c) < Len(visible[c])
       THEN /\ Log(c, "open")
            /\ \E ok \in OpenOutcomes(visible[c][Visited(c) + 1], milvusConnected) :
                 IF ok THEN Goto(c, "lm_count") ELSE UNCHANGED pc
       ELSE /\ Goto(c, "lm_finally")
            /\ UNCHANGED steps
    /\ UNCHANGED <<req, milvusConnected, conn, sample, fingerprint, embedLog,
                   native, results, pending, err, response, visible, listing,
                   saveOutcome>>

\* collections.append({..., "count": col.num_entities}), inside try / except
LMCount(c) ==
    /\ pc[c] = "lm_count"
    /\ Log(c, "count")
    /\ LET col == visible[c][Visited(c)] IN
       listing' = [listing EXCEPT ![c] =
                     IF CountSucceeds(col, milvusConnected)
                     THEN Append(@, ListEntry(col)) ELSE @]
    /\ Goto(c, "lm_open")
    /\ UNCHANGED <<req, milvusConnected, conn, sample, fingerprint, embedLog,
                   native, results, pending, err, response, visible,
                   saveOutcome>>

\* except: log and raise; finally: connections.disconnect("default")
LMFinally(c) ==
    /\ pc[c] = "lm_finally"
    /\ IF DisconnectRuns(pending[c])
       THEN /\ Log(c, "disconnect")
            /\ milvusConnected' = FALSE
            /\ conn' = [conn EXCEPT ![c] = "Disconnected"]
       ELSE UNCHANGED <<steps, milvusConnected, conn>>
    /\ LET e == IF pending[c] = NoError THEN NoError ELSE Reraise(pending[c]) IN
       /\ err' = [err EXCEPT ![c] = e]
       /\ IF e = NoError THEN Goto(c, "returned") ELSE Goto(c, "raised")
    /\ UNCHANGED <<req, sample, fingerprint, embedLog, native, results, pending,
                   response, visible, listing, saveOutcome>>

\* chromadb.PersistentClient(path=...)
LCClient(c) ==
    /\ pc[c] = "lc_client"
    /\ Log(c, "connect")
    /\ \E ok \in BOOLEAN :
         IF ok
         THEN /\ conn' = [conn EXCEPT ![c] = "Connected"]
              /\ Goto(c, "lc_list")
              /\ UNCHANGED pending
         ELSE /\ Raise(c, ChromaFailed("connect"))
              /\ Goto(c, "lc_except")
              /\ UNCHANGED conn
    /\ UNCHANGED <<req, milvusConnected, sample, fingerprint, embedLog, native,
                   results, err, response, visible, listing, saveOutcome>>

\* client.list_collections()
LCList(c, D) ==
    /\ pc[c] = "lc_list"
    /\ Log(c, "list")
    /\ \E ok \in BOOLEAN :
         IF ok
         THEN /\ \E cols \in D.listings : visible' = [visible EXCEPT ![c] = cols]
              /\ Goto(c, "lc_count")
              /\ UNCHANGED pending
         ELSE /\ Raise(c, ChromaFailed("list"))
              /\ Goto(c, "lc_except")
              /\ UNCHANGED visible
    /\ UNCHANGED <<req, milvusConnected, conn, sample, fingerprint, embedLog,
                   native, results, err, response, listing, saveOutcome>>

\* the rounds of the Chroma loop begun so far: each calls col.count()
Counted(c) == Len(SelectSeq(steps[c], LAMBDA x : x = "count"))

\* for col in ...: collections.append({..., "count": col.count()}), with no
\* try / except of its own; after the last collection, return collections
LCCount(c) ==
    /\ pc[c] = "lc_count"
    /\ IF Counted(c) < Len(visible[c])
       THEN LET col == visible[c][Counted(c) + 1] IN
            /\ Log(c, "count")
            /\ IF col.healthy
               THEN /\ listing' = [listing EXCEPT ![c] = Append(@, ListEntry(col))]
                    /\ UNCHANGED <<pc, pending>>
               ELSE /\ Raise(c, ChromaFailed("count"))
                    /\ Goto(c, "lc_except")
                    /\ UNCHANGED listing
       ELSE /\ Goto(c, "returned")
            /\ UNCHANGED <<steps, listing, pending>>
    /\ UNCHANGED <<req, milvusConnected, conn, sample, fingerprint, embedLog,
                   native, results, err, response, visible, saveOutcome>>

\* except Exception as e: logger.error(...); raise
LCExcept(c) ==
    /\ pc[c] = "lc_except"
    /\ LET e == Reraise(pending[c]) IN
       /\ err' = [err EXCEPT ![c] = e]
       /\ IF e = NoError THEN Goto(c, "returned") ELSE Goto(c, "raised")
    /\ UNCHANGED <<req, milvusConnected, conn, sample, fingerprint, embedLog,
                   native, results, pending, response, steps, visible, listing,
                   saveOutcome>>

\* ------------------------------------------------------------- the caller
\* the caller has the return value or the exception; the call's frame is gone
Finish(c) ==
    /\ pc[c] \in {"returned", "raised"}
    /\ Goto(c, "idle")
    /\ req' = [req EXCEPT ![c] = NoReq]
    /\ conn' = [conn EXCEPT ![c] = "Disconnected"]
    /\ sample' = [sample EXCEPT ![c] = NoSample]
    /\ fingerprint' = [fingerprint EXCEPT ![c] = NoFingerprint]
    /\ embedLog' = [embedLog EXCEPT ![c] = <<>>]
    /\ native' = [native EXCEPT ![c] = <<>>]
    /\ results' = [results EXCEPT ![c] = <<>>]
    /\ pending' = [pending EXCEPT ![c] = NoError]
    /\ err' = [err EXCEPT ![c] = NoError]
    /\ response' = [response EXCEPT ![c] = NoResponse]
    /\ saveOutcome' = [saveOutcome EXCEPT ![c] = "none"]
    /\ steps' = [steps EXCEPT ![c] = <<>>]
    /\ visible' = [visible EXCEPT ![c] = <<>>]
    /\ listing' = [listing EXCEPT ![c] = <<>>]
    /\ UNCHANGED milvusConnected

Step(c, D) ==
    \/ Start(c, D)
    \/ Dispatch(c)
    \/ MConnect(c)
    \/ MCollection(c)
    \/ MLoad(c)
    \/ MSample(c)
    \/ MEmbed(c)
    \/ MSearch(c, D)
    \/ MMap(c)
    \/ MFinally(c)
    \/ CClient(c)
    \/ CGet(c)
    \/ CResolve(c, D)
    \/ CEmbed(c)
    \/ CQuery(c, D)
    \/ CMap(c)
    \/ CExcept(c)
    \/ Persist(c)
    \/ LDispatch(c)
    \/ LMConnect(c)
    \/ LMList(c, D)
    \/ LMOpen(c)
    \/ LMCount(c)
    \/ LMFinally(c)
    \/ LCClient(c)
    \/ LCList(c, D)
    \/ LCCount(c)
    \/ LCExcept(c)
    \/ Finish(c)

\* calls one after another, on the full inputs
Next == \E c \in SeqCalls : Step(c, SeqData)

Spec == Init /\ [][Next]_vars

\* calls of several callers interleaved
NextConc == \E c \in Calls : Step(c, ConcData)

SpecConc == Init /\ [][NextConc]_vars

\* ================================================================= claims
Count(seq, x) == Len(SelectSeq(seq, LAMBDA y : y = x))
IsPrefix(s, t) == Len(s) <= Len(t) /\ \A i \in 1..Len(s) : s[i] = t[i]
LastOf(seq) == seq[Len(seq)]

\* the steps of a call without those of the connection life cycle
WorkSteps(c) ==
    SelectSeq(steps[c],
              LAMBDA x : x \notin {"connect", "open", "load", "disconnect"})

Left(c) == pc[c] \in {"persist", "returned", "raised"}
SearchOn(c, tag) == req[c].op = "search" /\ req[c].provider = tag

\* the connection of a search call has passed through the states of its
\* backend in order: Connected, then Loaded (Milvus) or Opened (Chroma), then
\* Queried, and is not yet released
LifecycleInOrder(c) ==
    /\ conn[c] # "Disconnected" => Count(steps[c], "disconnect") = 0
    /\ conn[c] = "Connected" => IsPrefix(<<"connect">>, steps[c])
    /\ conn[c] = "Loaded" => IsPrefix(<<"connect", "open", "load">>, steps[c])
    /\ conn[c] = "Opened" => IsPrefix(<<"connect", "open">>, steps[c])
    /\ (conn[c] = "Queried" /\ req[c].provider = "milvus") =>
           IsPrefix(<<"connect", "open", "load", "resolve">>, steps[c])
    /\ (conn[c] = "Queried" /\ req[c].provider = "chroma") =>
           IsPrefix(<<"connect", "open", "resolve", "embed", "vector_search">>,
                    steps[c])

\* the backend function has been left, by a return or by an exception, with
\* the connection released: one disconnect, after every other store operation
ReleasedAtExit(c) ==
    Left(c) =>
        /\ conn[c] = "Disconnected"
        /\ Count(steps[c], "connect") = 1
        /\ Count(steps[c], "disconnect") = 1
        /\ LastOf(SelectSeq(steps[c], LAMBDA x : x # "save")) = "disconnect"

\* C1: every search call, on either backend, follows Disconnected, Connected,
\* Loaded/Opened, Queried, Disconnected, and on every exit path (normal
\* return, empty list after filtering, exception at any step) its connection
\* has been disconnected: no search call ends with its connection open.
C1_EveryCallDisconnects ==
    \A c \in Calls :
        (req[c].op = "search" /\ req[c].provider \in {"milvus", "chroma"}) =>
            LifecycleInOrder(c) /\ ReleasedAtExit(c)

\* C2: between its own connect and its own disconnect, a call on the Milvus
\* backend has a live connection: no other call's disconnect releases it.
C2_ConnectionScopedToCall ==
    \A c \in Calls :
        (req[c].provider = "milvus" /\ conn[c] # "Disconnected") => milvusConnected

\* C3: a search with an unknown provider tag raises the unsupported-provider
\* error and has done no work: no connection, no collection read, no
\* embedding call, no vector search, no save.
C3_UnsupportedProviderNoWork ==
    \A c \in Calls :
        (req[c].op = "search" /\ req[c].provider \notin {"milvus", "chroma"}
         /\ pc[c] \notin {"idle", "dispatch"}) =>
            /\ pc[c] = "raised"
            /\ err[c] = UnsupportedProvider
            /\ steps[c] = <<>>
            /\ embedLog[c] = <<>>
            /\ conn[c] = "Disconnected"
            /\ ~sample[c].read
            /\ saveOutcome[c] = "none"
            /\ response[c] = NoResponse

\* a search with the tag "ftp" that has raised
C3_Witness ==
    \E c \in Calls :
        req[c].op = "search" /\ req[c].provider = "ftp" /\ pc[c] = "raised"

\* the canonical similarity of a native hit
Similarity(c, hit) ==
    IF req[c].provider = "chroma" THEN Unit - hit.raw ELSE hit.raw

\* C4: the result list is the subsequence of the native hits whose canonical
\* similarity is >= threshold, in native order; for Chroma the similarity
\* is 1 - distance.
C4_ThresholdFilterKeepsOrder ==
    \A c \in Calls :
        (req[c].op = "search" /\ pc[c] \in {"persist", "returned"}) =>
            LET kept == SelectSeq(native[c],
                                  LAMBDA h : Similarity(c, h) >= req[c].threshold)
            IN /\ Len(results[c]) = Len(kept)
               /\ \A i \in 1..Len(kept) :
                      /\ results[c][i].text = kept[i].text
                      /\ results[c][i].score = Similarity(c, kept[i])

\* a Chroma search of two hits: the first below the threshold is dropped, the
\* second exactly at the threshold is kept
C4_Witness ==
    \E c \in Calls :
        /\ SearchOn(c, "chroma")
        /\ pc[c] = "returned"
        /\ Len(native[c]) = 2
        /\ Unit - native[c][1].raw < req[c].threshold
        /\ Len(results[c]) = 1
        /\ results[c][1].score = req[c].threshold
        /\ results[c][1].text = native[c][2].text

\* C5: search() never raises because the save failed: the response then holds
\* exactly the results and a save_error, no saved_filepath; and the save is
\* called exactly when save_results is true and the result list is non-empty.
C5_SaveFailureIsolated ==
    \A c \in Calls :
        (req[c].op = "search" /\ pc[c] = "returned") =>
            /\ err[c] = NoError
            /\ response[c].results = results[c]
            /\ (saveOutcome[c] # "none") <=>
                   (req[c].save_results /\ results[c] # <<>>)
            /\ (saveOutcome[c] # "none") <=> (Count(steps[c], "save") = 1)
            /\ saveOutcome[c] = "failed" =>
                   DOMAIN response[c] = {"results", "save_error"}
            /\ saveOutcome[c] = "saved" =>
                   DOMAIN response[c] = {"results", "saved_filepath"}
            /\ saveOutcome[c] = "none" => DOMAIN response[c] = {"results"}

\* a search that returned its results although the save failed
C5_Witness ==
    \E c \in Calls :
        /\ req[c].op = "search"
        /\ pc[c] = "returned"
        /\ saveOutcome[c] = "failed"
        /\ response[c].results # <<>>

\* the entries of the collections that can be opened and counted
RECURSIVE HealthyEntries(_)
HealthyEntries(cols) ==
    IF cols = <<>> THEN <<>>
    ELSE (IF Head(cols).healthy
          THEN <<[id |-> Head(cols).name, name |-> Head(cols).name,
                  count |-> Head(cols).count]>>
          ELSE <<>>) \o HealthyEntries(Tail(cols))

\* C6: on both backends, a listing whose store is reachable returns an entry
\* for every collection that can be opened and counted; a collection that
\* fails is left out and the listing does not fail.
C6_ListingSkipsBrokenCollection ==
    \A c \in Calls :
        (req[c].op = "list" /\ req[c].provider \in {"milvus", "chroma"}
         /\ pc[c] \in {"returned", "raised"}
         /\ pending[c].msg \notin {"connect", "list"}) =>
            /\ pc[c] = "returned"
            /\ err[c] = NoError
            /\ listing[c] = HealthyEntries(visible[c])

\* C7: the steps of a search run in the order resolve, embed, vector search,
\* normalize, save; the query is embedded once, with the provider and model
\* the resolver read; a failed embedding reaches the caller with no vector
\* search, no second embedding and no save.
C7_StepsInOrder ==
    \A c \in Calls :
        req[c].op = "search" =>
            /\ IsPrefix(WorkSteps(c),
                        <<"resolve", "embed", "vector_search", "normalize", "save">>)
            /\ Len(embedLog[c]) = Count(steps[c], "embed")
            /\ Len(embedLog[c]) <= 1
            /\ \A i \in 1..Len(embedLog[c]) :
                   /\ sample[c].read /\ sample[c].records # <<>>
                   /\ embedLog[c][i].text = req[c].query
                   /\ embedLog[c][i].provider =
                          (IF "embedding_provider" \in DOMAIN sample[c].records[1]
                           THEN sample[c].records[1]["embedding_provider"]
                           ELSE "unknown")
                   /\ embedLog[c][i].model =
                          (IF "embedding_model" \in DOMAIN sample[c].records[1]
                           THEN sample[c].records[1]["embedding_model"]
                           ELSE "unknown")
            /\ pending[c] = EmbeddingFailed =>
                   /\ Count(steps[c], "vector_search") = 0
                   /\ Count(steps[c], "normalize") = 0
                   /\ saveOutcome[c] = "none"
                   /\ pc[c] \notin {"persist", "returned"}
                   /\ pc[c] = "raised" => err[c] = EmbeddingFailed

\* a Chroma search whose embedding call, made with the model read from the
\* collection metadata, failed
C7_Witness ==
    \E c \in Calls :
        /\ SearchOn(c, "chroma")
        /\ pc[c] = "raised"
        /\ err[c] = EmbeddingFailed
        /\ embedLog[c][1].model = "ada"

\* C8: on both backends a search whose hits were mapped succeeds, and every
\* hit it returns has exactly the canonical metadata keys, also when a
\* native hit lacks fields.
C8_CanonicalMetadataKeys ==
    \A c \in Calls :
        (req[c].op = "search" /\ Count(steps[c], "normalize") = 1 /\ Left(c)) =>
            /\ err[c] = NoError
            /\ \A i \in 1..Len(results[c]) :
                   DOMAIN results[c][i].metadata = CanonicalKeys

\* C9: a Milvus search whose sample query returned no record raises the
\* empty-collection error; the embedding and the vector search are never
\* called, nothing is returned, and the call has disconnected.
C9_EmptyCollectionRaises ==
    \A c \in Calls :
        (SearchOn(c, "milvus") /\ sample[c].read /\ sample[c].records = <<>>) =>
            /\ pc[c] \in {"m_finally", "raised"}
            /\ pending[c] = CollectionEmpty
            /\ embedLog[c] = <<>>
            /\ Count(steps[c], "embed") = 0
            /\ Count(steps[c], "vector_search") = 0
            /\ pc[c] = "raised" =>
                   /\ err[c] = CollectionEmpty
                   /\ response[c] = NoResponse
                   /\ conn[c] = "Disconnected"
                   /\ LastOf(steps[c]) = "disconnect"

\* a Milvus search of an empty collection that has raised
C9_Witness ==
    \E c \in Calls :
        /\ SearchOn(c, "milvus")
        /\ sample[c].read
        /\ sample[c].records = <<>>
        /\ pc[c] = "raised"

\* C10 (as stated): a store failure during a search reaches the caller as a
\* SearchBackendError.
C10_WrappedInSearchBackendError ==
    \A c \in Calls :
        (req[c].op = "search" /\ pc[c] = "raised"
         /\ pending[c].type \in StoreErrorTypes) =>
            err[c].type = "SearchBackendError"

\* C10 (amended): a store failure during a search, at any step on either
\* backend, reaches the caller as the store's own exception, re-raised
\* unchanged; the call returns no result, and the failed operation was
\* attempted exactly once.
C10_StoreErrorReraised ==
    \A c \in Calls :
        (req[c].op = "search" /\ Left(c)
         /\ pending[c].type \in StoreErrorTypes) =>
            /\ pc[c] = "raised"
            /\ err[c] = pending[c]
            /\ results[c] = <<>>
            /\ response[c] = NoResponse
            /\ saveOutcome[c] = "none"
            /\ Count(steps[c], pending[c].msg) = 1

\* a Chroma search whose vector search failed and has raised
C10_Witness ==
    \E c \in Calls :
        /\ SearchOn(c, "chroma")
        /\ pc[c] = "raised"
        /\ err[c] = ChromaFailed("vector_search")

====
